---- MODULE Spec2Model ----
(***************************************************************************)
(* A model of the CHIP-8 core of emuchip8.py (class Chip8): the machine    *)
(* state, reset, load_rom, save_state, load_state, step (fetch, decode,    *)
(* dispatch, timers) and draw_sprite; and of its host (class Chip8App):    *)
(* the key handlers, the menu commands and the frame driver run_frame.     *)
(* Python lists and bytearrays are sequences; index i of the source is     *)
(* index i+1 here.  An uncaught Python exception ends the call where it is *)
(* raised: what the call had already written stays written, and the        *)
(* exception is recorded in `fault`.                                       *)
(***************************************************************************)
EXTENDS Integers, Sequences, FiniteSets, TLC

VARIABLES
    mem,        \* self.mem: bytearray
    V,          \* self.V: list of registers
    I,          \* self.I
    pc,         \* self.pc
    stack,      \* self.stack
    delay,      \* self.delay
    sound,      \* self.sound
    gfx,        \* self.gfx: 64*32 cells, row-major
    keys,       \* self.keys
    draw_flag,  \* self.draw_flag
    wait_key,   \* self.wait_key; -1 while the attribute does not exist
    fault,      \* the exception the last call raised, "none" if it returned
    last,       \* the last call made on the machine
    opcode,     \* the opcode the last step() fetched (-1: none fetched)
    rom,        \* history: the bytes the last load_rom() read from its file
    before,     \* history: gfx, V and I as they were before the last step()
    calls,      \* history: <<address of the CALL, stack before it>> of every pending CALL
    running,    \* Chip8App.running
    scheduled,  \* whether Tk holds a pending root.after(..., self.run_frame)
    screen,     \* the fill colour of each canvas rectangle of Chip8App.rects
    blob,       \* the save file on disk: << >> or <<the file written by save_state>>
    held        \* history: the keys whose last event was a key press

appvars == <<running, scheduled, screen, blob, held>>

vars == <<mem, V, I, pc, stack, delay, sound, gfx, keys, draw_flag, wait_key,
          fault, last, opcode, rom, before, calls,
          running, scheduled, screen, blob, held>>

-----------------------------------------------------------------------------
(* Program constants *)

MemSize == 4096
ProgStart == 512
FontStart == 80
NumRegs == 16
NumKeys == 16
Width == 64
Height == 32
RomMax == MemSize - ProgStart

(* Bounds of the model *)

\* Step is not taken for a CALL that would make the stack deeper than this.
MaxStack == 18

FONT ==
    << 240, 144, 144, 144, 240,
        32,  96,  32,  32, 112,
       240,  16, 240, 128, 240,
       240,  16, 240,  16, 240,
       144, 144, 240,  16,  16,
       240, 128, 240,  16, 240,
       240, 128, 240, 144, 240,
       240,  16,  32,  64,  64,
       240, 144, 240, 144, 240,
       240, 144, 240,  16, 240,
       240, 144, 240, 144, 144,
       224, 144, 224, 144, 224,
       240, 128, 128, 128, 240,
       224, 144, 144, 144, 224,
       240, 128, 240, 128, 240,
       240, 128, 240, 128, 128 >>

-----------------------------------------------------------------------------
(* Python's sequence operations *)

Min(a, b) == IF a < b THEN a ELSE b

Max(a, b) == IF a > b THEN a ELSE b

Zeros(n) == [i \in 1..n |-> 0]

\* s[lo:hi] for 0 <= lo: both ends are clamped to len(s).
Slice(s, lo, hi) ==
    LET l == Min(lo, Len(s))
        h == Max(l, Min(hi, Len(s)))
    IN  SubSeq(s, l + 1, h)

\* s[lo:hi] = new for 0 <= lo: the clamped slice is replaced by new, whatever
\* its length, so the sequence grows or shrinks when the lengths differ.
SliceAssign(s, lo, hi, new) ==
    LET l == Min(lo, Len(s))
        h == Max(l, Min(hi, Len(s)))
    IN  SubSeq(s, 1, l) \o new \o SubSeq(s, h + 1, Len(s))

\* Whether s[i] raises IndexError (i >= 0).
OutOfRange(s, i) == i >= Len(s)

(* Bit operations on 8-bit values *)

RECURSIVE BitOp(_, _, _, _)
\* Bitwise a op b on the low `bits` bits; op is "and", "or" or "xor".
BitOp(op, a, b, bits) ==
    IF bits = 0 THEN 0
    ELSE LET x == a % 2
             y == b % 2
             r == CASE op = "and" -> IF x = 1 /\ y = 1 THEN 1 ELSE 0
                    [] op = "or"  -> IF x = 1 \/ y = 1 THEN 1 ELSE 0
                    [] OTHER      -> IF x # y THEN 1 ELSE 0
         IN  r + 2 * BitOp(op, a \div 2, b \div 2, bits - 1)

\* pixel & (0x80 >> col) is nonzero
BitSet(pixel, col) == (pixel \div (2 ^ (7 - col))) % 2 = 1

-----------------------------------------------------------------------------
(* The machine as a value: the fields of a Chip8 object, and the exception *)
(* of the call in progress.                                                *)

Machine ==
    [mem |-> mem, V |-> V, I |-> I, pc |-> pc, stack |-> stack,
     delay |-> delay, sound |-> sound, gfx |-> gfx, keys |-> keys,
     draw_flag |-> draw_flag, wait_key |-> wait_key, fault |-> "none"]

Raise(m) == [m EXCEPT !.fault = "IndexError"]

\* reset(): every field assigned at lines 68..79; wait_key is not among them.
reset(m) ==
    [m EXCEPT !.mem = SliceAssign(Zeros(MemSize), FontStart, FontStart + Len(FONT), FONT),
              !.V = Zeros(NumRegs),
              !.I = 0,
              !.pc = ProgStart,
              !.stack = << >>,
              !.delay = 0,
              !.sound = 0,
              !.gfx = Zeros(Width * Height),
              !.keys = Zeros(NumKeys),
              !.draw_flag = FALSE]

\* load_rom(path) with `data` the bytes of the file.
load_rom(m, data) ==
    LET r == reset(m)
    IN  [r EXCEPT !.mem = SliceAssign(r.mem, ProgStart, ProgStart + Len(data), data)]

-----------------------------------------------------------------------------
(* draw_sprite *)

\* idx = ((x_pos + col) % 64) + ((y_pos + row) % 32) * 64
CellIndex(x_pos, y_pos, row, col) ==
    ((x_pos + col) % Width) + ((y_pos + row) % Height) * Width

\* Mutant of Toggle: self.gfx[idx] |= 1, a draw that only ever sets cells
ToggleSetsCell(cell) == 1

\* self.gfx[idx] ^= 1
Toggle(cell) == IF cell = 0 THEN 1 ELSE 0

RECURSIVE DrawRow(_, _, _, _, _, _, _)
\* for col in range(8), from column col on: <<display, VF>> after the row
DrawRow(g, vf, pixel, x_pos, y_pos, row, col) ==
    IF col >= 8 THEN <<g, vf>>
    ELSE IF BitSet(pixel, col)
         THEN LET idx == CellIndex(x_pos, y_pos, row, col)
              IN  DrawRow([g EXCEPT ![idx + 1] = Toggle(g[idx + 1])],
                          IF g[idx + 1] # 0 THEN 1 ELSE vf,
                          pixel, x_pos, y_pos, row, col + 1)
         ELSE DrawRow(g, vf, pixel, x_pos, y_pos, row, col + 1)

RECURSIVE DrawRows(_, _, _, _, _, _, _, _)
\* for row in range(...), from row `row` up to (not including) row `rows`, on
\* display g with VF = vf: <<display, VF>> at the end
DrawRows(g, vf, m_mem, m_I, x_pos, y_pos, row, rows) ==
    IF row >= rows THEN <<g, vf>>
    ELSE LET r == DrawRow(g, vf, m_mem[m_I + row + 1], x_pos, y_pos, row, 0)
         IN  \* the test on r[2] has TLC finish this row before it starts the next
             IF r[2] = 0
             THEN DrawRows(r[1], 0, m_mem, m_I, x_pos, y_pos, row + 1, rows)
             ELSE DrawRows(r[1], 1, m_mem, m_I, x_pos, y_pos, row + 1, rows)

\* draw_sprite(x_pos, y_pos, height).  self.V[0xF] = 0 raises when the register
\* list is shorter than 16; self.mem[self.I + row] raises at the first row
\* beyond the end of memory, after the rows before it have been drawn.
draw_sprite(m, x_pos, y_pos, height) ==
    IF OutOfRange(m.V, 15) THEN Raise(m)
    ELSE LET rows == Min(height, Max(Len(m.mem) - m.I, 0))
             r == DrawRows(m.gfx, 0, m.mem, m.I, x_pos, y_pos, 0, rows)
             drawn == [m EXCEPT !.gfx = r[1], !.V[16] = r[2]]
         IN  IF rows < height THEN Raise(drawn)
             ELSE [drawn EXCEPT !.draw_flag = TRUE]

-----------------------------------------------------------------------------
(* step(): the handlers of the dispatch, on the machine m whose pc has     *)
(* already been advanced past the instruction.                             *)

\* case 0x0: CLS, RET, and 0NNN ignored
Op0(m, op) ==
    IF op = 224 THEN [m EXCEPT !.gfx = Zeros(Width * Height), !.draw_flag = TRUE]
    ELSE IF op = 238
         THEN IF Len(m.stack) = 0 THEN Raise(m)
              ELSE [m EXCEPT !.pc = m.stack[Len(m.stack)],
                             !.stack = SubSeq(m.stack, 1, Len(m.stack) - 1)]
         ELSE m

\* case 0x1: JP addr
OpJp(m, nnn) == [m EXCEPT !.pc = nnn]

\* Mutant of OpCall: the address of the CALL itself is pushed, not the one after it
OpCallPushesCallAddress(m, nnn) ==
    [m EXCEPT !.stack = Append(m.stack, m.pc - 2), !.pc = nnn]

\* case 0x2: CALL addr
OpCall(m, nnn) == [m EXCEPT !.stack = Append(m.stack, m.pc), !.pc = nnn]

\* case 0x3, 0x4: SE / SNE Vx, byte
OpSkipByte(m, x, nn, equal) ==
    IF OutOfRange(m.V, x) THEN Raise(m)
    ELSE IF (m.V[x + 1] = nn) = equal THEN [m EXCEPT !.pc = m.pc + 2] ELSE m

\* case 0x5, 0x9: SE / SNE Vx, Vy
OpSkipReg(m, x, y, equal) ==
    IF OutOfRange(m.V, x) \/ OutOfRange(m.V, y) THEN Raise(m)
    ELSE IF (m.V[x + 1] = m.V[y + 1]) = equal THEN [m EXCEPT !.pc = m.pc + 2] ELSE m

\* case 0x6: LD Vx, byte
OpLd(m, x, nn) ==
    IF OutOfRange(m.V, x) THEN Raise(m) ELSE [m EXCEPT !.V[x + 1] = nn]

\* case 0x7: ADD Vx, byte
OpAddByte(m, x, nn) ==
    IF OutOfRange(m.V, x) THEN Raise(m)
    ELSE [m EXCEPT !.V[x + 1] = (m.V[x + 1] + nn) % 256]

\* The flag, then the result, of the ALU cases that write VF: each assigns
\* V[0xF] first and computes V[x] from the registers as they are after that.
AluFlag(v, x, y, n) ==
    CASE n = 4  -> IF v[x + 1] + v[y + 1] > 255 THEN 1 ELSE 0
      [] n = 5  -> IF v[x + 1] > v[y + 1] THEN 1 ELSE 0
      [] n = 6  -> v[x + 1] % 2
      [] n = 7  -> IF v[y + 1] > v[x + 1] THEN 1 ELSE 0
      [] OTHER  -> (v[x + 1] \div 128) % 2

AluResult(v, x, y, n) ==
    CASE n = 5  -> (v[x + 1] - v[y + 1]) % 256
      [] n = 6  -> v[x + 1] \div 2
      [] n = 7  -> (v[y + 1] - v[x + 1]) % 256
      [] OTHER  -> (v[x + 1] * 2) % 256

\* case 0x8: ALU
OpAlu(m, x, y, n) ==
    IF n \in {0, 1, 2, 3}
    THEN IF OutOfRange(m.V, x) \/ OutOfRange(m.V, y) THEN Raise(m)
         ELSE [m EXCEPT !.V[x + 1] =
                 CASE n = 0 -> m.V[y + 1]
                   [] n = 1 -> BitOp("or", m.V[x + 1], m.V[y + 1], 8)
                   [] n = 2 -> BitOp("and", m.V[x + 1], m.V[y + 1], 8)
                   [] OTHER -> BitOp("xor", m.V[x + 1], m.V[y + 1], 8)]
    ELSE IF n = 4
    THEN IF OutOfRange(m.V, x) \/ OutOfRange(m.V, y) \/ OutOfRange(m.V, 15) THEN Raise(m)
         ELSE LET total == m.V[x + 1] + m.V[y + 1]
                  v1 == [m.V EXCEPT ![16] = AluFlag(m.V, x, y, 4)]
              IN  [m EXCEPT !.V = [v1 EXCEPT ![x + 1] = total % 256]]
    ELSE IF n \in {5, 7}
    THEN IF OutOfRange(m.V, x) \/ OutOfRange(m.V, y) \/ OutOfRange(m.V, 15) THEN Raise(m)
         ELSE LET v1 == [m.V EXCEPT ![16] = AluFlag(m.V, x, y, n)]
              IN  [m EXCEPT !.V = [v1 EXCEPT ![x + 1] = AluResult(v1, x, y, n)]]
    ELSE IF n \in {6, 14}
    THEN IF OutOfRange(m.V, x) \/ OutOfRange(m.V, 15) THEN Raise(m)
         ELSE LET v1 == [m.V EXCEPT ![16] = AluFlag(m.V, x, y, n)]
              IN  [m EXCEPT !.V = [v1 EXCEPT ![x + 1] = AluResult(v1, x, y, n)]]
    ELSE m

\* Mutant of OpLdI: self.I = opcode, the 0xA of the instruction not masked off
OpLdIUnmasked(m, nnn) == [m EXCEPT !.I = 40960 + nnn]

\* case 0xA: LD I, addr
OpLdI(m, nnn) == [m EXCEPT !.I = nnn]

\* case 0xB: JP V0, addr
OpJpV0(m, nnn) ==
    IF OutOfRange(m.V, 0) THEN Raise(m) ELSE [m EXCEPT !.pc = nnn + m.V[1]]

\* case 0xC: RND Vx, byte; rnd is the value random.randint(0, 255) returns
OpRnd(m, x, nn, rnd) ==
    IF OutOfRange(m.V, x) THEN Raise(m)
    ELSE [m EXCEPT !.V[x + 1] = BitOp("and", rnd, nn, 8)]

\* case 0xD: DRW Vx, Vy, n
OpDraw(m, x, y, n) ==
    IF OutOfRange(m.V, x) \/ OutOfRange(m.V, y) THEN Raise(m)
    ELSE draw_sprite(m, m.V[x + 1], m.V[y + 1], n)

\* case 0xE: SKP / SKNP Vx
OpKey(m, x, nn) ==
    IF nn \notin {158, 161} THEN m
    ELSE IF OutOfRange(m.V, x) THEN Raise(m)
    ELSE IF OutOfRange(m.keys, m.V[x + 1]) THEN Raise(m)
    ELSE IF (m.keys[m.V[x + 1] + 1] # 0) = (nn = 158)
         THEN [m EXCEPT !.pc = m.pc + 2]
         ELSE m

\* case 0xF
OpF(m, x, nn) ==
    CASE nn = 7 ->
           IF OutOfRange(m.V, x) THEN Raise(m) ELSE [m EXCEPT !.V[x + 1] = m.delay]
      [] nn = 10 -> [m EXCEPT !.wait_key = x]
      [] nn = 21 ->
           IF OutOfRange(m.V, x) THEN Raise(m) ELSE [m EXCEPT !.delay = m.V[x + 1]]
      [] nn = 24 ->
           IF OutOfRange(m.V, x) THEN Raise(m) ELSE [m EXCEPT !.sound = m.V[x + 1]]
      [] nn = 30 ->
           IF OutOfRange(m.V, x) THEN Raise(m)
           ELSE [m EXCEPT !.I = (m.I + m.V[x + 1]) % 4096]
      [] nn = 41 ->
           IF OutOfRange(m.V, x) THEN Raise(m)
           ELSE [m EXCEPT !.I = FontStart + m.V[x + 1] * 5]
      [] nn = 51 ->
           IF OutOfRange(m.V, x) THEN Raise(m)
           ELSE LET val == m.V[x + 1]
                IN  [m EXCEPT !.mem = SliceAssign(m.mem, m.I, m.I + 3,
                        <<(val \div 100) % 10, (val \div 10) % 10, val % 10>>)]
      [] nn = 85 ->
           [m EXCEPT !.mem = SliceAssign(m.mem, m.I, m.I + x + 1, Slice(m.V, 0, x + 1))]
      [] nn = 101 ->
           [m EXCEPT !.V = SliceAssign(m.V, 0, x + 1, Slice(m.mem, m.I, m.I + x + 1))]
      [] OTHER -> m

\* match nibbles[0]
Dispatch(m, op, rnd) ==
    LET op0 == op \div 4096
        x   == (op \div 256) % 16
        y   == (op \div 16) % 16
        n   == op % 16
        nn  == op % 256
        nnn == op % 4096
    IN  CASE op0 = 0  -> Op0(m, op)
          [] op0 = 1  -> OpJp(m, nnn)
          [] op0 = 2  -> OpCall(m, nnn)
          [] op0 = 3  -> OpSkipByte(m, x, nn, TRUE)
          [] op0 = 4  -> OpSkipByte(m, x, nn, FALSE)
          [] op0 = 5  -> OpSkipReg(m, x, y, TRUE)
          [] op0 = 6  -> OpLd(m, x, nn)
          [] op0 = 7  -> OpAddByte(m, x, nn)
          [] op0 = 8  -> OpAlu(m, x, y, n)
          [] op0 = 9  -> OpSkipReg(m, x, y, FALSE)
          [] op0 = 10 -> OpLdI(m, nnn)
          [] op0 = 11 -> OpJpV0(m, nnn)
          [] op0 = 12 -> OpRnd(m, x, nn, rnd)
          [] op0 = 13 -> OpDraw(m, x, y, n)
          [] op0 = 14 -> OpKey(m, x, nn)
          [] OTHER    -> OpF(m, x, nn)

\* Mutant of Tick: the timers decremented without the test for zero
TickWithoutFloor(m) ==
    [m EXCEPT !.delay = m.delay - 1, !.sound = m.sound - 1]

\* The timers, after the dispatch
Tick(m) ==
    [m EXCEPT !.delay = IF m.delay # 0 THEN m.delay - 1 ELSE 0,
              !.sound = IF m.sound # 0 THEN m.sound - 1 ELSE 0]

\* Whether the fetch at m.pc raises
FetchFaults(m) == OutOfRange(m.mem, m.pc) \/ OutOfRange(m.mem, m.pc + 1)

\* opcode = self.mem[self.pc] << 8 | self.mem[self.pc + 1]
Fetch(m) == m.mem[m.pc + 1] * 256 + m.mem[m.pc + 2]

\* step(): an exception leaves the timers alone
step(m, rnd) ==
    IF FetchFaults(m) THEN Raise(m)
    ELSE LET r == Dispatch([m EXCEPT !.pc = m.pc + 2], Fetch(m), rnd)
         IN  IF r.fault = "none" THEN Tick(r) ELSE r

-----------------------------------------------------------------------------
(* The programs the model loads.  Every program ends in a jump to itself,  *)
(* so a run does not walk through the zeroed rest of memory.               *)

Ins(a, b, c, d) == <<16 * a + b, 16 * c + d>>

LdV(x, nn) == <<96 + x, nn>>

LdI(nnn) == <<160 + nnn \div 256, nnn % 256>>

Jp(nnn) == <<16 + nnn \div 256, nnn % 256>>

Call(nnn) == <<32 + nnn \div 256, nnn % 256>>

Ret == <<0, 238>>

Cls == <<0, 224>>

\* body, then a jump to itself at the address after it
Halting(body) == body \o Jp(ProgStart + Len(body))

RegSel == {0, 1, 15}

ByteVals == {0, 1, 128, 255}

AluOps == {0, 1, 2, 3, 4, 5, 6, 7, 14}

\* 6xaa 6ybb 8xyn
AluRoms ==
    { Halting(LdV(x, a) \o LdV(y, b) \o Ins(8, x, y, n)) :
        x \in RegSel, y \in RegSel, a \in ByteVals, b \in ByteVals, n \in AluOps }

\* CALL and RET: a RET with nothing to return to; a routine that calls itself
\* for ever; the CALL 0x204 / RET scenario; two routines, one calling the other;
\* a CALL from the last two bytes of memory.
CallRoms ==
    { Halting(Ret),
      Call(512),
      Call(516) \o Jp(514) \o Ret,
      Call(518) \o Call(522) \o Jp(516) \o Call(522) \o Ret \o Ret,
      Jp(4094) }

FOps == {7, 21, 24, 30, 41, 51, 85, 101}

IndexVals == {80, 4093, 4094, 4095}

\* Annn 6xvv Fxnn, then a draw
MemRoms ==
    { Halting(LdI(a) \o LdV(x, v) \o Ins(15, x, f \div 16, f % 16) \o Ins(13, 0, 0, 1)) :
        a \in IndexVals, x \in {0, 2, 15}, v \in {7, 234}, f \in FOps }

SpriteAddrs == {0, 80, 4090}

\* Annn 6xaa 6ybb Dxyn Dxyn Dxyn
DrawRoms ==
    { Halting(LdI(a) \o LdV(x, xv) \o LdV(y, yv)
              \o Ins(13, x, y, n) \o Ins(13, x, y, n) \o Ins(13, x, y, n)) :
        a \in SpriteAddrs, x \in {0, 15}, y \in {1, 15},
        xv \in {0, 63, 255}, yv \in {0, 31}, n \in {0, 1, 5, 15} }

\* The other instructions: skips, ADD byte, JP V0, RND, keys, CLS, LD Vx K,
\* and the timers written and read back
MiscRoms ==
    { Halting(LdV(0, 5) \o <<112, 3>>),
      Halting(LdV(0, 5) \o Ins(15, 0, 1, 5) \o Ins(15, 0, 1, 8) \o Ins(15, 1, 0, 7)),
      Halting(LdV(1, 9) \o Ins(3, 1, 0, 9) \o Cls \o Ins(4, 1, 0, 9) \o Cls),
      Halting(LdV(1, 9) \o Ins(5, 1, 0, 0) \o Cls \o Ins(9, 1, 0, 0) \o Cls),
      Halting(LdV(0, 4) \o <<178, 2>> \o Cls),
      Halting(<<193, 15>>),
      Halting(LdV(2, 16) \o Ins(14, 0, 10, 1) \o Cls \o Ins(14, 0, 9, 14) \o Ins(14, 2, 9, 14)),
      Halting(LdI(80) \o Ins(13, 0, 0, 5) \o Cls \o Ins(15, 3, 0, 10)) }

\* One byte more than fits, and exactly what fits, from 0x200
LongRoms ==
    { Jp(ProgStart) \o [i \in 1..(RomMax - 1) |-> 255],
      Jp(ProgStart) \o [i \in 1..(RomMax - 2) |-> 255] }

Roms == AluRoms \cup CallRoms \cup MemRoms \cup DrawRoms \cup MiscRoms \cup LongRoms

\* The programs opened again while another one runs
ReopenRoms == { Halting(Ret), Call(512) }

\* The values random.randint(0, 255) is taken to return
RandBytes == {0, 90, 255}

-----------------------------------------------------------------------------
(* The state machine *)

Snapshot(m) == [gfx |-> m.gfx, V |-> m.V, I |-> m.I]

Store(r) ==
    /\ mem' = r.mem
    /\ V' = r.V
    /\ I' = r.I
    /\ pc' = r.pc
    /\ stack' = r.stack
    /\ delay' = r.delay
    /\ sound' = r.sound
    /\ gfx' = r.gfx
    /\ keys' = r.keys
    /\ draw_flag' = r.draw_flag
    /\ wait_key' = r.wait_key
    /\ fault' = r.fault

\* Chip8(): __init__ calls reset(); nothing has set wait_key.  Chip8App():
\* every rectangle black, not running, the first run_frame scheduled.
Init ==
    LET r == reset([mem |-> << >>, V |-> << >>, I |-> 0, pc |-> 0, stack |-> << >>,
                    delay |-> 0, sound |-> 0, gfx |-> << >>, keys |-> << >>,
                    draw_flag |-> FALSE, wait_key |-> -1, fault |-> "none"])
    IN  /\ mem = r.mem
        /\ V = r.V
        /\ I = r.I
        /\ pc = r.pc
        /\ stack = r.stack
        /\ delay = r.delay
        /\ sound = r.sound
        /\ gfx = r.gfx
        /\ keys = r.keys
        /\ draw_flag = r.draw_flag
        /\ wait_key = r.wait_key
        /\ fault = "none"
        /\ last = "init"
        /\ opcode = -1
        /\ rom = << >>
        /\ before = Snapshot(r)
        /\ calls = << >>
        /\ running = FALSE
        /\ scheduled = TRUE
        /\ screen = [i \in 1..(Width * Height) |-> "black"]
        /\ blob = << >>
        /\ held = {}

\* load_rom(path) on the machine as it is
LoadRom(data) ==
    LET r == load_rom(Machine, data)
    IN  /\ Store(r)
        /\ last' = "load_rom"
        /\ opcode' = -1
        /\ rom' = data
        /\ before' = Snapshot(r)
        /\ calls' = << >>

\* The first program, after construction
Open == last = "init" /\ (\E data \in Roms : LoadRom(data)) /\ UNCHANGED appvars

\* Another program, at any later time
Reopen == last # "init" /\ (\E data \in ReopenRoms : LoadRom(data)) /\ UNCHANGED appvars

IsCall(op) == op \div 4096 = 2

IsRet(op) == op = 238

IsRnd(op) == op \div 4096 = 12

\* step() on the machine as it is
Step ==
    /\ last # "init"
    /\ LET m == Machine
           fetched == IF FetchFaults(m) THEN -1 ELSE Fetch(m)
       IN  /\ ~(IsCall(fetched) /\ Len(stack) >= MaxStack)
           /\ \E rnd \in (IF IsRnd(fetched) THEN RandBytes ELSE {0}) :
                LET r == step(m, rnd)
                IN  /\ Store(r)
                    /\ last' = "step"
                    /\ opcode' = fetched
                    /\ rom' = rom
                    /\ before' = Snapshot(m)
                    /\ calls' =
                         IF r.fault # "none" THEN calls
                         ELSE IF IsCall(fetched) THEN Append(calls, <<pc, stack>>)
                         ELSE IF IsRet(fetched) THEN SubSeq(calls, 1, Len(calls) - 1)
                         ELSE calls
    /\ UNCHANGED appvars

Next == Open \/ Reopen \/ Step

Spec == Init /\ [][Next]_vars

-----------------------------------------------------------------------------
(* save_state and load_state.  A file is what pickle makes of it: `ok`     *)
(* tells whether pickle.loads returns at all, `has` the keys of the dict   *)
(* it returns and `state` their values.                                    *)

\* The keys of the dict of save_state, in the order load_state reads them
StateOrder == <<"mem", "V", "I", "pc", "stack", "delay", "sound", "gfx", "keys">>

StateFields == { StateOrder[i] : i \in 1..Len(StateOrder) }

\* Mutant of save_state: "I": self.pc
SaveStateIndexFromPc(m) ==
    [ok |-> TRUE, has |-> StateFields,
     state |-> [mem |-> m.mem, V |-> m.V, I |-> m.pc, pc |-> m.pc, stack |-> m.stack,
                delay |-> m.delay, sound |-> m.sound, gfx |-> m.gfx, keys |-> m.keys]]

\* save_state(path): the file written; draw_flag and wait_key are not in it
save_state(m) ==
    [ok |-> TRUE, has |-> StateFields,
     state |-> [mem |-> m.mem, V |-> m.V, I |-> m.I, pc |-> m.pc, stack |-> m.stack,
                delay |-> m.delay, sound |-> m.sound, gfx |-> m.gfx, keys |-> m.keys]]

\* self.<f> = state["<f>"], lines 99..107
AssignField(m, f, state) ==
    CASE f = "mem"   -> [m EXCEPT !.mem = state.mem]
      [] f = "V"     -> [m EXCEPT !.V = state.V]
      [] f = "I"     -> [m EXCEPT !.I = state.I]
      [] f = "pc"    -> [m EXCEPT !.pc = state.pc]
      [] f = "stack" -> [m EXCEPT !.stack = state.stack]
      [] f = "delay" -> [m EXCEPT !.delay = state.delay]
      [] f = "sound" -> [m EXCEPT !.sound = state.sound]
      [] f = "gfx"   -> [m EXCEPT !.gfx = state.gfx]
      [] OTHER       -> [m EXCEPT !.keys = state.keys]

RECURSIVE LoadFields(_, _, _)
\* The assignments of load_state from the i-th on: a key the dict lacks
\* raises KeyError after the fields before it were assigned.
LoadFields(m, file, i) ==
    IF i > Len(StateOrder) THEN [m EXCEPT !.draw_flag = TRUE]
    ELSE IF StateOrder[i] \notin file.has THEN [m EXCEPT !.fault = "KeyError"]
    ELSE LoadFields(AssignField(m, StateOrder[i], file.state), file, i + 1)

\* load_state(path): pickle.loads raises on bytes that are no complete pickle
load_state(m, file) ==
    IF ~file.ok THEN [m EXCEPT !.fault = "UnpicklingError"]
    ELSE LoadFields(m, file, 1)

-----------------------------------------------------------------------------
(* The host, Chip8App: Tk runs one handler at a time, so every handler is  *)
(* one action.                                                             *)

\* Chip8.__init__(cycles_per_frame=10)
cycles_per_frame == 10

\* update_screen(): the fill of every rectangle
update_screen(g) == [i \in 1..Len(g) |-> IF g[i] # 0 THEN "white" ELSE "black"]

RECURSIVE RunSteps(_, _)
\* The machines that `for _ in range(n): step()` can leave: an exception ends
\* the loop, and every Cxnn draws its own random byte.
RunSteps(m, n) ==
    IF n = 0 THEN {m}
    ELSE LET fetched == IF FetchFaults(m) THEN -1 ELSE Fetch(m)
             outs == { step(m, rnd) : rnd \in (IF IsRnd(fetched) THEN RandBytes ELSE {0}) }
         IN  UNION { IF r.fault # "none" THEN {r} ELSE RunSteps(r, n - 1) : r \in outs }

\* The keys of the pad that are pressed and released
KeySel == {0}

\* The programs opened from the menu: a glyph drawn, a RET on the empty
\* stack, and a CLS only while key 0 is down.
AppRoms ==
    { Halting(LdI(80) \o Ins(13, 0, 0, 5)),
      Ret,
      Halting(Ins(14, 0, 10, 1) \o Cls) }

BlankState ==
    [mem |-> Zeros(MemSize), V |-> Zeros(NumRegs), I |-> 0, pc |-> ProgStart,
     stack |-> << >>, delay |-> 0, sound |-> 0, gfx |-> Zeros(Width * Height),
     keys |-> Zeros(NumKeys)]

\* A file that is no pickle, or a pickle cut short
GarbageFile == [ok |-> FALSE, has |-> {}, state |-> BlankState]

\* pickle.dumps({"mem": ...}), the memory that of a machine with the first
\* program loaded: a dict that lacks every other key
PartialFile ==
    [ok |-> TRUE, has |-> {"mem"},
     state |-> [BlankState EXCEPT
                  !.mem = load_rom(Machine, Halting(LdI(80) \o Ins(13, 0, 0, 5))).mem]]

\* The files "Load state" is pointed at
Files == {GarbageFile, PartialFile} \cup { blob[i] : i \in 1..Len(blob) }

\* Chip8App.open_rom with a file chosen
OpenRom ==
    /\ \E data \in AppRoms : LoadRom(data)
    /\ running' = TRUE
    /\ UNCHANGED <<scheduled, screen, blob, held>>

\* Chip8App.save_state with a file chosen, once a program runs; the file
\* replaces the one saved before
SaveState ==
    /\ running
    /\ blob' = <<save_state(Machine)>>
    /\ Store(Machine)
    /\ last' = "save_state"
    /\ opcode' = -1
    /\ UNCHANGED <<rom, before, calls, running, scheduled, screen, held>>

\* Chip8App.load_state with a file chosen: an exception skips running = True
LoadState ==
    \E file \in Files :
        LET r == load_state(Machine, file)
        IN  /\ Store(r)
            /\ running' = IF r.fault = "none" THEN TRUE ELSE running
            /\ last' = "load_state"
            /\ opcode' = -1
            /\ before' = Snapshot(r)
            /\ calls' = << >>
            /\ UNCHANGED <<rom, scheduled, screen, blob, held>>

\* Chip8App.key_down for a key of the pad
KeyDown ==
    \E k \in KeySel :
        /\ Store([Machine EXCEPT !.keys[k + 1] = 1])
        /\ held' = held \cup {k}
        /\ last' = "key_down"
        /\ opcode' = -1
        /\ UNCHANGED <<rom, before, calls, running, scheduled, screen, blob>>

\* Chip8App.key_up for a key of the pad
KeyUp ==
    \E k \in KeySel :
        /\ Store([Machine EXCEPT !.keys[k + 1] = 0])
        /\ held' = held \ {k}
        /\ last' = "key_up"
        /\ opcode' = -1
        /\ UNCHANGED <<rom, before, calls, running, scheduled, screen, blob>>

\* Chip8App.run_frame, when Tk fires it: an exception of step() leaves the
\* handler before the screen is updated and before root.after is called.
RunFrame ==
    /\ scheduled
    /\ \E r \in (IF running THEN RunSteps(Machine, cycles_per_frame) ELSE {Machine}) :
         /\ IF r.fault # "none"
            THEN Store(r) /\ scheduled' = FALSE /\ screen' = screen
            ELSE /\ Store([r EXCEPT !.draw_flag = FALSE])
                 /\ scheduled' = TRUE
                 /\ screen' = IF r.draw_flag THEN update_screen(r.gfx) ELSE screen
         /\ before' = Snapshot(r)
    /\ last' = "run_frame"
    /\ opcode' = -1
    /\ calls' = << >>
    /\ UNCHANGED <<rom, running, blob, held>>

AppNext == OpenRom \/ SaveState \/ LoadState \/ KeyDown \/ KeyUp \/ RunFrame

AppSpec == Init /\ [][AppNext]_vars

-----------------------------------------------------------------------------
(* The claims.  An action formula speaks of one call: the unprimed         *)
(* variables are the machine before it, the primed ones the machine after. *)

\* The 16-bit opcode with nibbles a, x, y, n
Opc(a, x, y, n) == 4096 * a + 256 * x + 16 * y + n

\* The call just made was a step() that fetched opcode op
Stepped(op) == last' = "step" /\ opcode' = op

\* C1: 8xy5 and 8xy7 with x # 0xF leave the difference modulo 256 in V[x] and
\* VF = 1 exactly when the minuend is at least the subtrahend (no borrow),
\* equal operands included.
C1_SubNoBorrowFlag ==
    [][\A x \in 0..14, y \in 0..15 :
         /\ (Stepped(Opc(8, x, y, 5)) /\ Len(V) = NumRegs) =>
               /\ fault' = "none"
               /\ V'[x + 1] = (V[x + 1] - V[y + 1]) % 256
               /\ V'[16] = (IF V[x + 1] >= V[y + 1] THEN 1 ELSE 0)
         /\ (Stepped(Opc(8, x, y, 7)) /\ Len(V) = NumRegs) =>
               /\ fault' = "none"
               /\ V'[x + 1] = (V[y + 1] - V[x + 1]) % 256
               /\ V'[16] = (IF V[y + 1] >= V[x + 1] THEN 1 ELSE 0)
      ]_vars

\* C2: 8xy4, 8xy6 and 8xyE, for every x and y (0xF included), leave in VF the
\* carry, the low bit, or the high bit of the operands as they were before the
\* instruction, and in V[x], when x # 0xF, the result modulo 256.
C2_AddShiftFlag ==
    [][\A x \in 0..15, y \in 0..15 :
         /\ (Stepped(Opc(8, x, y, 4)) /\ Len(V) = NumRegs) =>
               /\ fault' = "none"
               /\ V'[16] = (IF V[x + 1] + V[y + 1] > 255 THEN 1 ELSE 0)
               /\ x # 15 => V'[x + 1] = (V[x + 1] + V[y + 1]) % 256
         /\ (Stepped(Opc(8, x, y, 6)) /\ Len(V) = NumRegs) =>
               /\ fault' = "none"
               /\ V'[16] = V[x + 1] % 2
               /\ x # 15 => V'[x + 1] = V[x + 1] \div 2
         /\ (Stepped(Opc(8, x, y, 14)) /\ Len(V) = NumRegs) =>
               /\ fault' = "none"
               /\ V'[16] = V[x + 1] \div 128
               /\ x # 15 => V'[x + 1] = (2 * V[x + 1]) % 256
      ]_vars

\* C3: a step() that executes 00EE on an empty stack reports a fault and leaves
\* program_counter at the address of the 00EE, the stack still empty.
C3_ReturnUnderflowKeepsPc ==
    [][(Stepped(238) /\ stack = << >>) =>
          /\ fault' # "none"
          /\ pc' = pc
          /\ stack' = << >>
      ]_vars

\* C4: the RETURN that matches a CALL executed at address a with the stack
\* equal to S sets program_counter to a + 2 and leaves the stack equal to S,
\* whatever matched CALLs and RETURNs ran in between.
C4_CallReturnBalanced ==
    [][(Stepped(238) /\ Len(calls) > 0) =>
          LET a == calls[Len(calls)][1]
              S == calls[Len(calls)][2]
          IN  /\ fault' = "none"
              /\ pc' = a + 2
              /\ stack' = S
      ]_vars

\* A RETURN from a routine called from inside another: one address is left.
C4_Witness ==
    /\ last = "step" /\ opcode = 238 /\ fault = "none"
    /\ Len(calls) = 1 /\ stack = <<514>> /\ pc = 520

\* C5: the stack never holds more than 16 return addresses, and a CALL on a
\* stack of 16 entries is reported as a fault instead of pushing a 17th.
C5_StackDepthBounded ==
    [][last' = "step" =>
          /\ Len(stack') <= 16
          /\ (IsCall(opcode') /\ Len(stack) = 16) => (fault' # "none" /\ stack' = stack)
      ]_vars

\* C6: load_rom of more than 3584 bytes fails and leaves memory 4096 bytes
\* long; load_rom of at most 3584 bytes resets the machine and puts byte i of
\* the program at memory[0x200 + i].
C6_LoadRomBounded ==
    [][last' = "load_rom" =>
          /\ Len(mem') = MemSize
          /\ IF Len(rom') > RomMax
             THEN fault' # "none"
             ELSE /\ fault' = "none"
                  /\ pc' = ProgStart
                  /\ \A i \in 1..Len(rom') : mem'[ProgStart + i] = rom'[i]
      ]_vars

\* C7: a step() on a 4096-byte memory leaves it 4096 bytes long, and an Fx33
\* or Fx55 whose range I.. runs past address 4095 is reported as a fault.
C7_MemorySizeFixed ==
    [][(last' = "step" /\ Len(mem) = MemSize) =>
          /\ Len(mem') = MemSize
          /\ \A x \in 0..15 :
               /\ (opcode' = Opc(15, x, 3, 3) /\ I + 3 > MemSize) => fault' # "none"
               /\ (opcode' = Opc(15, x, 5, 5) /\ I + x + 1 > MemSize) => fault' # "none"
      ]_vars

\* C8: Fx65, for every x and every I in 0..4095, leaves 16 registers, with
\* V[x+1..15] and I as they were and V[0..x] the bytes memory[I..I+x] that exist.
C8_LoadRegsFrame ==
    [][\A x \in 0..15 :
         (Stepped(Opc(15, x, 6, 5)) /\ Len(V) = NumRegs /\ I \in 0..(MemSize - 1)) =>
            /\ Len(V') = NumRegs
            /\ I' = I
            /\ \A i \in 0..15 :
                 /\ i > x => V'[i + 1] = V[i + 1]
                 /\ (i <= x /\ I + i < Len(mem)) => V'[i + 1] = mem[I + i + 1]
      ]_vars

\* The cells a Dxyn toggles: one for every set bit col (MSB first) of byte row
\* of the n bytes at mem[I..], at ((xp + col) mod 64, (yp + row) mod 32).
SpriteCells(xp, yp, n) ==
    { ((xp + col) % 64) + 64 * ((yp + row) % 32) :
        <<row, col>> \in { rc \in (0..(n - 1)) \X (0..7) : BitSet(mem[I + rc[1] + 1], rc[2]) } }

\* The step just made and the one before it executed the same Dxyn, both
\* without a fault.  No draw writes I or memory, so the second draw reads the
\* sprite bytes the first one read.
DrewTwice ==
    /\ last = "step" /\ fault = "none" /\ opcode \div 4096 = 13
    /\ last' = "step" /\ fault' = "none" /\ opcode' = opcode
    /\ I = before.I

\* C9 as stated: after a Dxyn executed twice in succession the display is what
\* it was before the first draw, and VF = 1.
C9_DrawTwiceAsStated ==
    [][DrewTwice => (gfx' = before.gfx /\ V'[16] = 1)]_vars

\* C9 as amended: when V[x] and V[y] are the same at both draws, the display
\* after the second draw is what it was before the first, and VF = 1 exactly
\* when the sprite has a set bit on a cell that was off before the first draw.
C9_DrawTwice ==
    [][LET x == (opcode \div 256) % 16
           y == (opcode \div 16) % 16
           n == opcode % 16
       IN  (DrewTwice /\ V[x + 1] = before.V[x + 1] /\ V[y + 1] = before.V[y + 1]) =>
              /\ gfx' = before.gfx
              /\ V'[16] = (IF \E c \in SpriteCells(V[x + 1], V[y + 1], n) :
                                 before.gfx[c + 1] = 0
                           THEN 1 ELSE 0)
      ]_vars

\* The second draw of glyph rows on a screen that was clear before the first:
\* the screen is clear again and VF = 1.
C9_Witness ==
    /\ last = "step" /\ fault = "none" /\ opcode \div 4096 = 13 /\ pc = 522
    /\ before.gfx # gfx
    /\ gfx = Zeros(Width * Height)
    /\ V[16] = 1

\* C10: a Dxyn whose sprite bytes lie inside memory toggles exactly the cells
\* of the sprite's set bits, wrapped into the 64x32 grid, and no other; VF is 1
\* exactly when one of those cells was on before; the dirty flag is set.
C10_DrawSpriteExact ==
    [][LET x == (opcode' \div 256) % 16
           y == (opcode' \div 16) % 16
           n == opcode' % 16
       IN  (/\ last' = "step" /\ opcode' \div 4096 = 13
            /\ x < Len(V) /\ y < Len(V)
            /\ I + n <= Len(mem)) =>
              LET S == SpriteCells(V[x + 1], V[y + 1], n)
              IN  /\ fault' = "none"
                  /\ Len(gfx') = Width * Height
                  /\ \A c \in 0..(Width * Height - 1) :
                       gfx'[c + 1] = IF c \in S THEN 1 - gfx[c + 1] ELSE gfx[c + 1]
                  /\ V'[16] = (IF \E c \in S : gfx[c + 1] = 1 THEN 1 ELSE 0)
                  /\ draw_flag' = TRUE
      ]_vars

-----------------------------------------------------------------------------
(* The claims about save_state, load_state and the host *)

\* A fresh Chip8(): the fields reset() assigns, and no wait_key
Fresh ==
    reset([mem |-> << >>, V |-> << >>, I |-> 0, pc |-> 0, stack |-> << >>,
           delay |-> 0, sound |-> 0, gfx |-> << >>, keys |-> << >>,
           draw_flag |-> FALSE, wait_key |-> -1, fault |-> "none"])

\* load_state into a fresh machine of the file save_state writes of the
\* machine as it is leaves the fields of the machine saved, and a set dirty flag
RoundTrip ==
    LET r == load_state(Fresh, save_state(Machine))
    IN  /\ r.fault = "none"
        /\ r.mem = mem /\ r.V = V /\ r.I = I /\ r.pc = pc
        /\ r.stack = stack /\ r.delay = delay /\ r.sound = sound
        /\ r.gfx = gfx /\ r.keys = keys
        /\ r.draw_flag

C12_ResetClearsAll ==
    [][ (last' = "load_rom") =>
           /\ mem' = SliceAssign(Fresh.mem, ProgStart, ProgStart + Len(rom'), rom')
           /\ V' = Zeros(NumRegs) /\ I' = 0 /\ pc' = ProgStart /\ stack' = << >>
           /\ delay' = 0 /\ sound' = 0
           /\ gfx' = Zeros(Width * Height) /\ keys' = Zeros(NumKeys)
           /\ wait_key' = -1
      ]_vars

\* C13: a Load state that fails (a file that is no complete pickle, or a
\* pickled dict that lacks a field) leaves memory, V, I, pc, the stack, the
\* timers, the display, the keys and the dirty flag as they were.
C13_LoadStateAllOrNothing ==
    [][ (last' = "load_state" /\ fault' # "none") =>
           /\ mem' = mem /\ V' = V /\ I' = I /\ pc' = pc /\ stack' = stack
           /\ delay' = delay /\ sound' = sound /\ gfx' = gfx /\ keys' = keys
           /\ draw_flag' = draw_flag
      ]_vars

\* C14: the step() after one that executed Fx0A (no key press is ever
\* delivered: no handler writes V[x] or clears wait_key) fetches the same
\* Fx0A again, with pc where it was and wait_key = x still.
C14_WaitKeyBlocks ==
    [][ (/\ last = "step" /\ fault = "none"
         /\ opcode \div 4096 = 15 /\ opcode % 256 = 10
         /\ last' = "step") =>
           /\ wait_key = (opcode \div 256) % 16
           /\ opcode' = opcode /\ pc' = pc /\ wait_key' = wait_key
      ]_vars

\* C15: a step() that returns leaves each timer one below the value it had
\* after the dispatch (V[x] for the timer Fx15 or Fx18 writes, the old value
\* otherwise), or 0 if that was 0; Fx07 reads the delay timer as it was
\* before the step; and both timers are within 0..255 after every call.
C15_TimerTick ==
    [][ /\ delay' \in 0..255 /\ sound' \in 0..255
        /\ (last' = "step" /\ fault' = "none") =>
              LET x  == (opcode' \div 256) % 16
                  nn == IF opcode' \div 4096 = 15 THEN opcode' % 256 ELSE -1
                  d  == IF nn = 21 THEN V[x + 1] ELSE delay
                  s  == IF nn = 24 THEN V[x + 1] ELSE sound
              IN  /\ delay' = (IF d > 0 THEN d - 1 ELSE 0)
                  /\ sound' = (IF s > 0 THEN s - 1 ELSE 0)
                  /\ (nn = 7) => V'[x + 1] = delay
      ]_vars

\* After F107 that follows F015 and F018 with V0 = 5: V1 holds the delay
\* timer of before the step, and both timers have gone down by one.
C15_Witness ==
    /\ last = "step" /\ fault = "none" /\ opcode = Opc(15, 1, 0, 7)
    /\ V[1] = 5 /\ V[2] = 3 /\ delay = 2 /\ sound = 3

\* C16: a frame tick that returns leaves the dirty flag clear and the canvas
\* showing the display buffer; and every other handler that changes the
\* display buffer (Open ROM, Load state) leaves the dirty flag set.
C16_DirtyFlagRenders ==
    [][ /\ (last' = "run_frame" /\ fault' = "none") =>
              (~draw_flag' /\ screen' = update_screen(gfx'))
        /\ (last' # "run_frame" /\ gfx' # gfx) => draw_flag'
      ]_vars

\* C17: after every call 0 <= I <= 4095; a step() changes I only when it
\* executes Annn, Fx1E or Fx29; and Fx1E leaves I = (I + V[x]) mod 4096 and
\* every register, VF included, as it was.
C17_IndexInRange ==
    [][ /\ I' \in 0..(MemSize - 1)
        /\ (last' = "step" /\ I' # I) =>
              \/ opcode' \div 4096 = 10
              \/ opcode' \div 4096 = 15 /\ opcode' % 256 \in {30, 41}
        /\ (/\ last' = "step" /\ fault' = "none"
            /\ opcode' \div 4096 = 15 /\ opcode' % 256 = 30) =>
              /\ I' = (I + V[((opcode' \div 256) % 16) + 1]) % MemSize
              /\ V' = V
      ]_vars

\* Fx1E that wrapped: I is below what it was before the step
C17_Witness ==
    /\ last = "step" /\ fault = "none"
    /\ opcode \div 4096 = 15 /\ opcode % 256 = 30
    /\ before.I = 4095 /\ I = 6

\* C18: a step() that raises leaves pc, the registers, I, the stack, the
\* timers, memory, the display and the dirty flag as they were before it.
C18_FaultingStepAtomic ==
    [][ (last' = "step" /\ fault' # "none") =>
           /\ pc' = pc /\ V' = V /\ I' = I /\ stack' = stack
           /\ delay' = delay /\ sound' = sound
           /\ mem' = mem /\ gfx' = gfx /\ draw_flag' = draw_flag
      ]_vars

\* C19: every run_frame that Tk fires, one in which step() raises included,
\* leaves the next run_frame scheduled.
C19_FrameDriverReschedules ==
    [][ (last' = "run_frame") => scheduled' ]_vars

\* C20: after every handler, key k is latched exactly when its last event was
\* a key press; and a frame of step() calls leaves the latch as it was.
C20_KeyLatchMirrorsKeys ==
    [][ /\ \A k \in 0..(NumKeys - 1) : (keys'[k + 1] # 0) <=> (k \in held')
        /\ (last' = "run_frame") => keys' = keys
      ]_vars

====
